---------------------------- MODULE Spec2Model ----------------------------
(***************************************************************************)
(* Model of the contract-tracking core of suivi_sedit:                     *)
(*   - MarchesSync (marches_sync.py): the SQLite cache of imported rows,   *)
(*     keyed by row hash, with file-level change detection;                *)
(*   - MarchesAnalyzer (marches_module.py): the financial aggregation      *)
(*     over the loaded rows and the operation-code heuristic;              *)
(*   - Database (the application file): the override store of manual       *)
(*     amounts, tranches and amendments that the aggregation consults.     *)
(*                                                                         *)
(* Abstractions.  Amounts are integers counted in cents (0.01 is 1), so    *)
(* floating-point rounding is not modelled.  MD5 is taken to be injective: *)
(* a digest is the tagged preimage.  A DataFrame is a sequence of rows; a  *)
(* missing cell (NaN/None) is the value NULL in the cache and the cell NaN *)
(* in the analyzer; a text is a sequence of characters.  sqlite3 is        *)
(* modelled by a committed database, one pending transaction per           *)
(* connection and the single write lock of the database file.              *)
(***************************************************************************)
EXTENDS Integers, Sequences, FiniteSets, TLC

VARIABLES
    \* ---- file system and SQLite database of MarchesSync ----
    files,            \* source key -> [exists, readable, content, mtime]
    lignes_factures,  \* committed table lignes_factures: set of stored rows
    sync_info,        \* committed table sync_info: sequence of snapshots, by id
    writer,           \* connection holding the database write lock, 0 if none
    tx,               \* connection -> its pending (uncommitted) transaction
    \* ---- one sync_from_excel call per connection ----
    pc,               \* connection -> position in sync_from_excel
    arg,              \* connection -> [filepath, df, force] of the current/last call
    existing_hashes,  \* connection -> local existing_hashes
    stats,            \* connection -> local stats dictionary
    ret,              \* connection -> value returned by the last call
    \* ---- history variables (not program state) ----
    pre,              \* connection -> committed database when the call started
    prev,             \* connection -> whether the current call repeats the one before
    untouched,        \* connection -> its source file was not written since its last call began
    lastCommit,       \* connection whose sync committed last, 0 if none
    \* ---- MarchesAnalyzer ----
    df_marches,       \* self.df_marches: the loaded rows
    db,               \* self.db: the override store (contracts, tranches, amendments)
    marche_arg,       \* the contract code handed to extract_operation
    out               \* the last call on the analyzer and what it returned

syncVars == <<files, lignes_factures, sync_info, writer, tx, pc, arg,
              existing_hashes, stats, ret, pre, prev, untouched, lastCommit>>

anaVars == <<df_marches, db, marche_arg, out>>

vars == <<syncVars, anaVars>>

-----------------------------------------------------------------------------
(* Bounds of the model *)

MaxRows == 2      \* longest DataFrame handed to sync_from_excel
MaxSnaps == 2     \* longest snapshot history explored
MaxTime == 2      \* latest modification time of a file

-----------------------------------------------------------------------------
(* Generic helpers *)

NULL == "NULL"

RECURSIVE SeqsUpTo(_, _)
SeqsUpTo(S, n) ==
    IF n = 0 THEN {<<>>}
    ELSE LET shorter == SeqsUpTo(S, n - 1)
         IN  shorter \cup {Append(s, e) : s \in {t \in shorter : Len(t) = n - 1}, e \in S}

Range(s) == {s[i] : i \in 1..Len(s)}

Abs(n) == IF n < 0 THEN -n ELSE n

-----------------------------------------------------------------------------
(* MarchesSync: values *)

Conn == {1, 2}                     \* MarchesSync instances on marches_cache.db
Keys == {"f", "database_sync"}     \* an Excel file, and the application's synthetic key
Contents == {"x", "y"}       \* file contents; "x" and "y" have the same size

\* An imported row: <<marche, montant_initial>> as the cells of the DataFrame.
\* The cell "x" is text that float() rejects.
SyncRows == {<<"M1", "10">>, <<"M1", "20">>, <<"M2", "10">>, <<"M2", "x">>}
DataFrames == SeqsUpTo(SyncRows, MaxRows)

FileSize(f) == Len(f.content)

\* _calculate_file_hash: the MD5 of the content, "" if the file cannot be read
CalculateFileHash(f) == IF f.readable THEN "md5:" \o f.content ELSE ""

\* _calculate_row_hash: MD5 of "|".join(str(v) for v in row.values)
CalculateRowHash(row) == "md5:" \o row[1] \o "|" \o row[2]

CanFloat(cell) == cell \in {"10", "20", NULL}
ToFloat(cell) == CASE cell = "10" -> 1000 [] cell = "20" -> 2000 [] OTHER -> 0

\* row_data of sync_from_excel: the stored form of an imported row
RowData(row) ==
    [hash_ligne |-> CalculateRowHash(row),
     marche |-> row[1],
     montant_initial |-> ToFloat(row[2])]

HashesOf(lignes) == {l.hash_ligne : l \in lignes}
NewHashes(df) == {CalculateRowHash(df[i]) : i \in 1..Len(df)}

NoTx == [active |-> FALSE, lignes |-> {}, info |-> <<>>]
InitStats == [status |-> "success", nb_inserted |-> 0, nb_unchanged |-> 0, nb_deleted |-> 0]
NoRet == [status |-> "none", nb_inserted |-> 0, nb_unchanged |-> 0, nb_deleted |-> 0]
NoArg == [filepath |-> "f", df |-> <<>>, force |-> FALSE]
NoPrev == [again |-> FALSE, status |-> "none"]
NoDb == [lignes |-> {}, info |-> <<>>]

Committed == [lignes |-> lignes_factures, info |-> sync_info]

\* What a connection reads: its own pending writes, else the committed database.
View(c) == IF tx[c].active THEN [lignes |-> tx[c].lignes, info |-> tx[c].info] ELSE Committed

-----------------------------------------------------------------------------
(* MarchesSync.file_needs_sync *)

\* SELECT ... FROM sync_info WHERE fichier_path = ? ORDER BY id DESC LIMIT 1
SnapshotIds(info, filepath) == {i \in 1..Len(info) : info[i].fichier_path = filepath}
HasSnapshot(info, filepath) == SnapshotIds(info, filepath) # {}
\* Mutant of LastSnapshot: ORDER BY id ASC, the oldest snapshot of the key.
LastSnapshotOldest(info, filepath) ==
    info[CHOOSE i \in SnapshotIds(info, filepath) :
            \A j \in SnapshotIds(info, filepath) : i <= j]

\* WHERE fichier_path = ? ORDER BY id DESC LIMIT 1
LastSnapshot(info, filepath) ==
    info[CHOOSE i \in SnapshotIds(info, filepath) :
            \A j \in SnapshotIds(info, filepath) : j <= i]

\* get_sync_status: the row count and status of the latest snapshot of the
\* key (every snapshot is inserted with sync_status 'success'), or None.
GetSyncStatus(info, filepath) ==
    IF ~HasSnapshot(info, filepath)
    THEN [found |-> FALSE, nb_lignes |-> 0, sync_status |-> ""]
    ELSE [found |-> TRUE, nb_lignes |-> LastSnapshot(info, filepath).nb_lignes,
          sync_status |-> "success"]

MtimeTolerance == 1

\* Mutant of FileNeedsSync: the row count of the snapshot is not looked at.
FileNeedsSyncAnyCount(info, fs, filepath) ==
    IF ~fs[filepath].exists THEN [needs |-> TRUE, reason |-> "Fichier introuvable"]
    ELSE IF ~HasSnapshot(info, filepath) THEN [needs |-> TRUE, reason |-> "Premiere synchronisation"]
    ELSE LET last == LastSnapshot(info, filepath)
             f == fs[filepath]
         IN  IF FileSize(f) # last.file_size THEN [needs |-> TRUE, reason |-> "Taille du fichier changee"]
             ELSE IF Abs(f.mtime - last.last_modified) > MtimeTolerance
                  THEN IF CalculateFileHash(f) # last.file_hash
                       THEN [needs |-> TRUE, reason |-> "Contenu du fichier modifie"]
                       ELSE [needs |-> FALSE, reason |-> "Fichier inchange (date modifiee)"]
             ELSE [needs |-> FALSE, reason |-> "Fichier inchange"]

\* Mutant of FileNeedsSync: a path that is not a file needs a sync only until
\* it has a snapshot.
FileNeedsSyncMissingOnce(info, fs, filepath) ==
    IF ~fs[filepath].exists
    THEN [needs |-> ~HasSnapshot(info, filepath), reason |-> "Fichier introuvable"]
    ELSE IF ~HasSnapshot(info, filepath) THEN [needs |-> TRUE, reason |-> "Premiere synchronisation"]
    ELSE LET last == LastSnapshot(info, filepath)
             f == fs[filepath]
         IN  IF FileSize(f) # last.file_size THEN [needs |-> TRUE, reason |-> "Taille du fichier changee"]
             ELSE IF last.nb_lignes = 0 THEN [needs |-> TRUE, reason |-> "Base vide"]
             ELSE IF Abs(f.mtime - last.last_modified) > MtimeTolerance
                  THEN IF CalculateFileHash(f) # last.file_hash
                       THEN [needs |-> TRUE, reason |-> "Contenu du fichier modifie"]
                       ELSE [needs |-> FALSE, reason |-> "Fichier inchange (date modifiee)"]
             ELSE [needs |-> FALSE, reason |-> "Fichier inchange"]

FileNeedsSync(info, fs, filepath) ==
    IF ~fs[filepath].exists THEN [needs |-> TRUE, reason |-> "Fichier introuvable"]
    ELSE IF ~HasSnapshot(info, filepath) THEN [needs |-> TRUE, reason |-> "Premiere synchronisation"]
    ELSE LET last == LastSnapshot(info, filepath)
             f == fs[filepath]
         IN  IF FileSize(f) # last.file_size THEN [needs |-> TRUE, reason |-> "Taille du fichier changee"]
             ELSE IF last.nb_lignes = 0 THEN [needs |-> TRUE, reason |-> "Base vide"]
             ELSE IF Abs(f.mtime - last.last_modified) > MtimeTolerance
                  THEN IF CalculateFileHash(f) # last.file_hash
                       THEN [needs |-> TRUE, reason |-> "Contenu du fichier modifie"]
                       ELSE [needs |-> FALSE, reason |-> "Fichier inchange (date modifiee)"]
             ELSE [needs |-> FALSE, reason |-> "Fichier inchange"]

-----------------------------------------------------------------------------
(* MarchesSync.sync_from_excel, statement by statement *)

\* Index of the first row whose conversion raises, 0 if none does.
FirstBadRow(df) ==
    IF \E i \in 1..Len(df) : ~CanFloat(df[i][2])
    THEN CHOOSE i \in 1..Len(df) : ~CanFloat(df[i][2]) /\ \A j \in 1..(i - 1) : CanFloat(df[j][2])
    ELSE 0

\* stats['nb_unchanged'] after the loop has handled rows 1..n
NbUnchanged(df, existing, n) ==
    Cardinality({i \in 1..n : CalculateRowHash(df[i]) \in existing})

\* rows_to_insert: row_data of every incoming row whose hash is not stored yet
RECURSIVE RowsToInsert(_, _)
RowsToInsert(df, existing) ==
    IF df = <<>> THEN <<>>
    ELSE LET rest == RowsToInsert(SubSeq(df, 1, Len(df) - 1), existing)
             row == df[Len(df)]
         IN  IF CalculateRowHash(row) \in existing THEN rest ELSE Append(rest, RowData(row))

\* INSERT OR REPLACE of the rows in order, hash_ligne being UNIQUE
RECURSIVE InsertOrReplace(_, _)
InsertOrReplace(lignes, rows) ==
    IF rows = <<>> THEN lignes
    ELSE LET r == Head(rows)
         IN  InsertOrReplace({l \in lignes : l.hash_ligne # r.hash_ligne} \cup {r}, Tail(rows))

\* Mutant of DeleteHashes: the rows that left the file are kept.
DeleteHashesNone(lignes, hashes) == lignes

\* DELETE FROM lignes_factures WHERE hash_ligne IN (...)
DeleteHashes(lignes, hashes) == {l \in lignes : l.hash_ligne \notin hashes}

HashesToDelete(existing, df) == existing \ NewHashes(df)

\* Mutant of Snapshot: the values of the synthetic source are recorded for a file too.
SnapshotFake(fs, filepath, df) ==
    [fichier_path |-> filepath, last_modified |-> 0,
     file_size |-> 0, file_hash |-> "database_sync", nb_lignes |-> Len(df)]

\* The snapshot appended to sync_info
Snapshot(fs, filepath, df) ==
    IF fs[filepath].exists
    THEN [fichier_path |-> filepath, last_modified |-> fs[filepath].mtime,
          file_size |-> FileSize(fs[filepath]), file_hash |-> CalculateFileHash(fs[filepath]),
          nb_lignes |-> Len(df)]
    ELSE [fichier_path |-> filepath, last_modified |-> 0,
          file_size |-> 0, file_hash |-> "database_sync", nb_lignes |-> Len(df)]

\* A statement that writes: sqlite3 opens the transaction and takes the write lock.
CanWrite(c) == writer \in {0, c}
Write(c, lignes, info) ==
    /\ tx' = [tx EXCEPT ![c] = [active |-> TRUE, lignes |-> lignes, info |-> info]]
    /\ writer' = c

\* The call ends: the result is returned to the caller.
Return(c, result) ==
    /\ ret' = [ret EXCEPT ![c] = result]
    /\ pc' = [pc EXCEPT ![c] = "idle"]
    /\ stats' = [stats EXCEPT ![c] = InitStats]
    /\ existing_hashes' = [existing_hashes EXCEPT ![c] = {}]

\* Whether a call repeats the connection's last completed call: same source,
\* same rows, both without force, the source left alone in between; and how
\* that last call ended.
Repeats(c, filepath, df, force) ==
    [again |-> /\ ret[c].status # "none"
               /\ arg[c] = [filepath |-> filepath, df |-> df, force |-> FALSE]
               /\ ~force
               /\ untouched[c],
     status |-> ret[c].status]

\* Mutant of SkippedStorage: the skipped call empties the tables.
SkippedStorageCleared(c) ==
    /\ lignes_factures' = {}
    /\ sync_info' = <<>>
    /\ UNCHANGED <<writer, tx>>

\* lines 192-196: the skipped call returns before any statement is executed
SkippedStorage(c) == UNCHANGED <<lignes_factures, sync_info, writer, tx>>

\* lines 178-198: the call and the skip test
SyncCall(c, filepath, df, force) ==
    /\ pc[c] = "idle"
    /\ arg' = [arg EXCEPT ![c] = [filepath |-> filepath, df |-> df, force |-> force]]
    /\ pre' = [pre EXCEPT ![c] = Committed]
    /\ prev' = [prev EXCEPT ![c] = Repeats(c, filepath, df, force)]
    /\ untouched' = [untouched EXCEPT ![c] = TRUE]
    /\ IF ~force /\ ~FileNeedsSync(View(c).info, files, filepath).needs
       THEN /\ Return(c, [InitStats EXCEPT !.status = "skipped"])
            /\ SkippedStorage(c)
       ELSE /\ Len(sync_info) < MaxSnaps
            /\ ret' = [ret EXCEPT ![c] = NoRet]
            /\ pc' = [pc EXCEPT ![c] = "read"]
            /\ UNCHANGED <<stats, existing_hashes, lignes_factures, sync_info, writer, tx>>
    /\ UNCHANGED <<anaVars, files, lastCommit>>

\* Mutant of Rollback: the except block forgets self.conn.rollback().
RollbackForgotten(c) == UNCHANGED <<tx, writer>>

\* except Exception: self.conn.rollback()
Rollback(c) ==
    /\ tx' = [tx EXCEPT ![c] = NoTx]
    /\ writer' = IF writer = c THEN 0 ELSE writer

\* lines 200-232: read the stored hashes, convert and classify the incoming rows
SyncRead(c) ==
    /\ pc[c] = "read"
    /\ LET df == arg[c].df
           existing == HashesOf(View(c).lignes)
           bad == FirstBadRow(df)
       IN  IF bad # 0
           THEN /\ Return(c, [stats[c] EXCEPT !.status = "error",
                                              !.nb_unchanged = NbUnchanged(df, existing, bad - 1)])
                /\ Rollback(c)
           ELSE /\ existing_hashes' = [existing_hashes EXCEPT ![c] = existing]
                /\ stats' = [stats EXCEPT ![c].nb_unchanged = NbUnchanged(df, existing, Len(df))]
                /\ pc' = [pc EXCEPT ![c] = "insert"]
                /\ UNCHANGED <<ret, tx, writer>>
    /\ UNCHANGED <<anaVars, files, lignes_factures, sync_info, arg, pre, prev, untouched, lastCommit>>

\* lines 234-243: executemany INSERT OR REPLACE
SyncInsert(c) ==
    /\ pc[c] = "insert"
    /\ LET rows == RowsToInsert(arg[c].df, existing_hashes[c])
       IN  IF rows # <<>>
           THEN /\ CanWrite(c)
                /\ Write(c, InsertOrReplace(View(c).lignes, rows), View(c).info)
                /\ stats' = [stats EXCEPT ![c].nb_inserted = Len(rows)]
           ELSE UNCHANGED <<tx, writer, stats>>
    /\ pc' = [pc EXCEPT ![c] = "delete"]
    /\ UNCHANGED <<anaVars, files, lignes_factures, sync_info, arg, existing_hashes, ret,
                   pre, prev, untouched, lastCommit>>

\* lines 245-252: delete the stored rows that are no longer in the file
SyncDelete(c) ==
    /\ pc[c] = "delete"
    /\ LET hashes_to_delete == HashesToDelete(existing_hashes[c], arg[c].df)
       IN  IF hashes_to_delete # {}
           THEN /\ CanWrite(c)
                /\ Write(c, DeleteHashes(View(c).lignes, hashes_to_delete), View(c).info)
                /\ stats' = [stats EXCEPT ![c].nb_deleted = Cardinality(hashes_to_delete)]
           ELSE UNCHANGED <<tx, writer, stats>>
    /\ pc' = [pc EXCEPT ![c] = "snapshot"]
    /\ UNCHANGED <<anaVars, files, lignes_factures, sync_info, arg, existing_hashes, ret,
                   pre, prev, untouched, lastCommit>>

\* lines 254-279: INSERT INTO sync_info
SyncSnapshot(c) ==
    /\ pc[c] = "snapshot"
    /\ CanWrite(c)
    /\ Write(c, View(c).lignes, Append(View(c).info, Snapshot(files, arg[c].filepath, arg[c].df)))
    /\ pc' = [pc EXCEPT ![c] = "commit"]
    /\ UNCHANGED <<anaVars, files, lignes_factures, sync_info, arg, existing_hashes, stats, ret,
                   pre, prev, untouched, lastCommit>>

\* line 281: self.conn.commit()
SyncCommit(c) ==
    /\ pc[c] = "commit"
    /\ writer = c
    /\ lignes_factures' = tx[c].lignes
    /\ sync_info' = tx[c].info
    /\ tx' = [tx EXCEPT ![c] = NoTx]
    /\ writer' = 0
    /\ lastCommit' = c
    /\ Return(c, stats[c])
    /\ UNCHANGED <<anaVars, files, arg, pre, prev, untouched>>

\* Any statement of the try block raises (disk error, database locked, ...):
\* lines 283-290 roll back and return status 'error'.
SyncFail(c) ==
    /\ pc[c] \in {"read", "insert", "delete", "snapshot", "commit"}
    /\ Rollback(c)
    /\ Return(c, [stats[c] EXCEPT !.status = "error"])
    /\ UNCHANGED <<anaVars, files, lignes_factures, sync_info, arg, pre, prev, untouched, lastCommit>>

\* load_to_dataframe: the stored rows, those of one contract when a non-empty
\* filter is given (the order of the rows is not modelled).
LoadToDataframe(lignes, marche_filter) ==
    IF marche_filter \in {NULL, ""} THEN lignes
    ELSE {l \in lignes : l.marche = marche_filter}

\* What clear_cache leaves behind for the caller: ret and pre remember that the
\* last call of c was clear_cache and what the database held before it.
Cleared(c) ==
    /\ ret' = [d \in Conn |-> IF d = c THEN [NoRet EXCEPT !.status = "cleared"]
                              ELSE IF pc[d] = "idle" THEN NoRet ELSE ret[d]]
    /\ pre' = [d \in Conn |-> IF d = c THEN Committed
                              ELSE IF pc[d] = "idle" THEN NoDb ELSE pre[d]]
    /\ arg' = [d \in Conn |-> IF pc[d] = "idle" THEN NoArg ELSE arg[d]]
    /\ prev' = [d \in Conn |-> IF pc[d] = "idle" THEN NoPrev ELSE prev[d]]
    /\ untouched' = [d \in Conn |-> FALSE]
    /\ lastCommit' = 0
    /\ UNCHANGED <<anaVars, files, writer, tx, pc, existing_hashes, stats>>

\* Mutant of ClearCache: DELETE FROM sync_info is left out.
ClearCacheRowsOnly(c) ==
    /\ pc[c] = "idle"
    /\ CanWrite(c)
    /\ lignes_factures' = {}
    /\ UNCHANGED sync_info
    /\ Cleared(c)

\* MarchesSync.clear_cache
ClearCache(c) ==
    /\ pc[c] = "idle"
    /\ CanWrite(c)
    /\ lignes_factures' = {}
    /\ sync_info' = <<>>
    /\ Cleared(c)

\* The environment rewrites or touches the Excel file.
EnvWriteFile(content, dt) ==
    /\ files["f"].mtime + dt <= MaxTime
    /\ content # files["f"].content \/ dt > 0
    /\ files' = [files EXCEPT !["f"].content = content, !["f"].mtime = @ + dt]
    /\ untouched' = [c \in Conn |-> untouched[c] /\ arg[c].filepath # "f"]
    /\ UNCHANGED <<anaVars, lignes_factures, sync_info, writer, tx, pc, arg, existing_hashes,
                   stats, ret, pre, prev, lastCommit>>

-----------------------------------------------------------------------------
(* MarchesAnalyzer: values *)

MaxAggRows == 2    \* most rows loaded for the tranche and contract aggregations
MaxHistRows == 1   \* most rows loaded for the invoice history
MaxCodeLen == 5    \* longest contract code handed to extract_operation
MaxAvenants == 2   \* most amendments recorded for a contract

\* A text is a sequence of one-character strings.  Code points order the
\* characters as Python compares them.
Alphabet == <<" ", "-", "0", "1", "2", "3", "4", "5", "6", "7", "8", "9", "F", "G", "M", "_", "x">>
Ord(ch) == CHOOSE i \in 1..Len(Alphabet) : Alphabet[i] = ch
Digits == {"0", "1", "2", "3", "4", "5", "6", "7", "8", "9"}

\* A cell of the DataFrame: missing (NaN/None), a number, or text.  The text
\* cells of the model do not spell a number.
NaN == [kind |-> "nan", num |-> 0, text |-> <<>>]
Num(n) == [kind |-> "num", num |-> n, text |-> <<>>]
Text(s) == [kind |-> "text", num |-> 0, text |-> s]

IsNa(cell) == cell.kind = "nan"

\* str(value) of a cell that is not missing
Str(cell) == IF cell.kind = "text" THEN cell.text ELSE <<ToString(cell.num)>>

\* pd.to_numeric(..., errors='coerce').fillna(0.0)
ToNumeric(cell) == IF cell.kind = "num" THEN cell.num ELSE 0

\* float(x) if pd.notna(x) else 0.0, with except: 0.0
FloatOrZero(cell) == IF cell.kind = "num" THEN cell.num ELSE 0

\* The date cell: NaT, the text the cache stores (year first), or a Timestamp.
NaT == [kind |-> "nat", ymd |-> <<>>]

\* date_sf_str: a string as it is, a Timestamp through strftime("%d/%m/%Y")
DateSfStr(date) ==
    CASE date.kind = "nat" -> <<>>
      [] date.kind = "str" -> date.ymd
      [] OTHER -> <<date.ymd[3], date.ymd[2], date.ymd[1]>>

\* str.strip()
IsSpace(ch) == ch = " "
RECURSIVE LStrip(_)
LStrip(s) == IF s # <<>> /\ IsSpace(Head(s)) THEN LStrip(Tail(s)) ELSE s
RECURSIVE RStrip(_)
RStrip(s) == IF s # <<>> /\ IsSpace(s[Len(s)]) THEN RStrip(SubSeq(s, 1, Len(s) - 1)) ELSE s
Strip(s) == RStrip(LStrip(s))

RECURSIVE SumSeq(_)
SumSeq(s) == IF s = <<>> THEN 0 ELSE Head(s) + SumSeq(Tail(s))

RECURSIVE SumSet(_)
SumSet(S) == IF S = {} THEN 0 ELSE LET x == CHOOSE x \in S : TRUE IN x + SumSet(S \ {x})

\* Series.unique(): the distinct values in order of first appearance
RECURSIVE Unique(_)
Unique(s) ==
    IF s = <<>> THEN <<>>
    ELSE LET rest == Unique(SubSeq(s, 1, Len(s) - 1))
             last == s[Len(s)]
         IN  IF last \in Range(rest) THEN rest ELSE Append(rest, last)

Column(df, name) == [i \in 1..Len(df) |-> df[i][name]]

\* Lexicographic order of two sequences of integers
RECURSIVE LexLess(_, _)
LexLess(a, b) ==
    IF b = <<>> THEN FALSE
    ELSE IF a = <<>> THEN TRUE
    ELSE IF Head(a) # Head(b) THEN Head(a) < Head(b)
    ELSE LexLess(Tail(a), Tail(b))

CodePoints(s) == [i \in 1..Len(s) |-> Ord(s[i])]
TextLess(a, b) == LexLess(CodePoints(a), CodePoints(b))

\* A row of df_marches, by the columns the analyzer reads.
AggRow(marche, tranche, montant_initial, montant_sf, montant_ttc, num_mandat, num_facture) ==
    [marche |-> marche, fournisseur |-> NaN, libelle |-> NaN, date_sf |-> NaT,
     num_facture |-> num_facture, montant_initial |-> montant_initial,
     montant_sf |-> montant_sf, montant_ttc |-> montant_ttc,
     num_mandat |-> num_mandat, tranche |-> tranche]

\* Contract codes of the loaded rows: a lot of operation 1_1, and a contract
\* that is its own operation.
Marches == {<<"1", "_", "1", "_", "1">>, <<"1", "_", "2">>}
Tranches == {NaN, Num(0), Num(1)}

\* The override store (class Database): the tables marches, tranches, avenants.
NoDatabase == [present |-> FALSE, marches |-> {}, tranches |-> <<>>, avenants |-> <<>>]
EmptyDatabase == [present |-> TRUE, marches |-> {}, tranches |-> <<>>, avenants |-> <<>>]
ManualDatabase ==
    [present |-> TRUE,
     marches |-> {[code_marche |-> <<"1", "_", "1", "_", "1">>, montant_initial_manuel |-> 200,
                   type_marche |-> "CLASSIQUE"]},
     tranches |-> <<[code_marche |-> <<"1", "_", "1", "_", "1">>, code_tranche |-> <<"T", "O", "1">>,
                     montant |-> 30]>>,
     avenants |-> <<[code_marche |-> <<"1", "_", "1", "_", "1">>, montant |-> 10,
                     type_modification |-> "Diminution"]>>]
DbStores == {NoDatabase, EmptyDatabase, ManualDatabase}

\* Every content of the override store for the contract 1_1_1: its record in
\* marches or none (type_marche may be NULL), its records in tranches (the
\* tables declare no enforced foreign key), and the given lists of amendments.
MarcheRecords ==
    {[code_marche |-> <<"1", "_", "1", "_", "1">>, montant_initial_manuel |-> m, type_marche |-> ty] :
        m \in {0, 200}, ty \in {"CLASSIQUE", "BDC", NULL}}
TrancheTF == [code_marche |-> <<"1", "_", "1", "_", "1">>, code_tranche |-> <<"T", "F">>, montant |-> 70]
TrancheTO1 == [code_marche |-> <<"1", "_", "1", "_", "1">>, code_tranche |-> <<"T", "O", "1">>, montant |-> 30]
TrancheTO1Zero == [code_marche |-> <<"1", "_", "1", "_", "1">>, code_tranche |-> <<"T", "O", "1">>, montant |-> 0]
TrancheLists == {<<>>, <<TrancheTF>>, <<TrancheTO1>>, <<TrancheTO1Zero>>, <<TrancheTF, TrancheTO1>>}
AvenantRecords ==
    {[code_marche |-> <<"1", "_", "1", "_", "1">>, montant |-> 10, type_modification |-> "Augmentation"],
     [code_marche |-> <<"1", "_", "1", "_", "1">>, montant |-> 300, type_modification |-> "Diminution"],
     [code_marche |-> <<"1", "_", "1", "_", "1">>, montant |-> 5, type_modification |-> NULL]}
OverrideStores(avenantLists) ==
    {[present |-> TRUE, marches |-> recs, tranches |-> ts, avenants |-> avs] :
        recs \in {{}} \cup {{r} : r \in MarcheRecords}, ts \in TrancheLists, avs \in avenantLists}

NoOut == [op |-> "none", marche |-> <<>>, tranche |-> NaN, montant |-> 0, text |-> <<>>, rows |-> <<>>]

AnalyzerUnused ==
    /\ df_marches = <<>>
    /\ db = NoDatabase
    /\ marche_arg = <<>>
    /\ out = NoOut

-----------------------------------------------------------------------------
(* Database: the override store *)

\* get_marche: SELECT * FROM marches WHERE code_marche = ?  (code_marche is UNIQUE)
HasMarche(store, code_marche) == \E r \in store.marches : r.code_marche = code_marche
GetMarche(store, code_marche) == CHOOSE r \in store.marches : r.code_marche = code_marche

\* get_tranches, get_avenants: SELECT * ... WHERE code_marche = ?
GetTranches(store, code_marche) == SelectSeq(store.tranches, LAMBDA t : t.code_marche = code_marche)
GetAvenants(store, code_marche) == SelectSeq(store.avenants, LAMBDA a : a.code_marche = code_marche)

\* Mutant of SignedAvenant: every amendment is added.
SignedAvenantAdded(a) == a.montant

\* lines 849-855: a 'Diminution' is subtracted, any other amendment is added
SignedAvenant(a) == IF a.type_modification = "Diminution" THEN -a.montant ELSE a.montant

\* Mutant of MontantFromDb: the table tranches is searched for the firm tranche too.
MontantFromDbAnyTranche(store, marche, tranche) ==
    LET firm == tranche.kind = "nan" \/ (tranche.kind = "num" /\ tranche.num = 0)
        code_tranche == IF firm THEN <<"T", "F">> ELSE <<"T", "O", ToString(tranche.num)>>
        found == SelectSeq(store.tranches,
                           LAMBDA t : t.code_marche = marche /\ t.code_tranche = code_tranche)
        manual == {r.montant_initial_manuel : r \in {q \in store.marches : q.code_marche = marche}}
    IN  IF firm /\ manual \notin {{}, {0}} THEN CHOOSE m \in manual : TRUE
        ELSE IF found # <<>> THEN found[1].montant ELSE 0

\* get_montant_total_marche
GetMontantTotalMarche(store, code_marche) ==
    IF ~HasMarche(store, code_marche) THEN 0
    ELSE LET marche == GetMarche(store, code_marche)
             tranches == GetTranches(store, code_marche)
             avenants == GetAvenants(store, code_marche)
             type_marche == IF marche.type_marche # NULL THEN marche.type_marche ELSE "CLASSIQUE"
             montant_tos == IF type_marche = "CLASSIQUE"
                            THEN SumSeq([i \in 1..Len(tranches) |-> tranches[i].montant])
                            ELSE 0
         IN  marche.montant_initial_manuel + montant_tos
                + SumSeq([i \in 1..Len(avenants) |-> SignedAvenant(avenants[i])])

-----------------------------------------------------------------------------
(* MarchesAnalyzer: the tranche calculations *)

Epsilon == 1      \* the threshold 0.01, in cents

\* mask: rows of this contract and this tranche (a missing tranche matches isna())
TrancheMask(r, marche, tranche) ==
    /\ r.marche = marche
    /\ IF IsNa(tranche) THEN IsNa(r.tranche) ELSE r.tranche = tranche

\* code_tranche of a tranche that is neither missing nor zero
CodeTranche(tranche) ==
    IF tranche.kind = "num" THEN <<"T", "O", ToString(tranche.num)>> ELSE Str(tranche)

\* lines 225-257: the amount the override store defines, 0 if it defines none
MontantFromDb(store, marche, tranche) ==
    IF IsNa(tranche) \/ (tranche.kind = "num" /\ tranche.num = 0)
    THEN IF HasMarche(store, marche) THEN GetMarche(store, marche).montant_initial_manuel ELSE 0
    ELSE LET found == SelectSeq(store.tranches,
                                LAMBDA t : t.code_marche = marche /\ t.code_tranche = CodeTranche(tranche))
         IN  IF found # <<>> THEN found[1].montant ELSE 0

\* lines 259-290: the fallback computed from the loaded rows
MontantFromExcel(df, marche, tranche) ==
    LET df_tranche == SelectSeq(df, LAMBDA r : TrancheMask(r, marche, tranche))
        montants == [i \in 1..Len(df_tranche) |-> ToNumeric(df_tranche[i].montant_initial)]
        montants_uniques == {v \in Range(montants) : v > Epsilon}
    IN  SumSet(montants_uniques)

\* Mutant of CalculateMontantInitialTranche: the override amounts are those of
\* the store as it was when the analyzer was created, still empty.
CalculateMontantInitialTrancheStale(df, store, marche, tranche) ==
    IF EmptyDatabase.present /\ MontantFromDb(EmptyDatabase, marche, tranche) # 0
    THEN MontantFromDb(EmptyDatabase, marche, tranche)
    ELSE MontantFromExcel(df, marche, tranche)

CalculateMontantInitialTranche(df, store, marche, tranche) ==
    IF store.present /\ MontantFromDb(store, marche, tranche) # 0
    THEN MontantFromDb(store, marche, tranche)
    ELSE MontantFromExcel(df, marche, tranche)

\* Mutant of MandatMask: the filter on the mandate is left out.
MandatMaskNone(r) == TRUE

\* .notna() & (!= ''): the mandate is filled in
MandatMask(r) == ~IsNa(r.num_mandat) /\ r.num_mandat # Text(<<>>)

CalculatePayeTranche(df, marche, tranche) ==
    LET df_tranche == SelectSeq(df, LAMBDA r : TrancheMask(r, marche, tranche) /\ MandatMask(r))
    IN  SumSeq([i \in 1..Len(df_tranche) |-> ToNumeric(df_tranche[i].montant_ttc)])

\* calculate_service_fait_tranche: the sum of the service-fait column
CalculateServiceFaitTranche(df, marche, tranche) ==
    LET df_tranche == SelectSeq(df, LAMBDA r : TrancheMask(r, marche, tranche))
    IN  SumSeq([i \in 1..Len(df_tranche) |-> ToNumeric(df_tranche[i].montant_sf)])

-----------------------------------------------------------------------------
(* MarchesAnalyzer.extract_operation *)

Count(s, ch) == Cardinality({i \in 1..Len(s) : s[i] = ch})

\* str.rfind: the 0-based index of the last occurrence, -1 if there is none
RFind(s, ch) ==
    IF Count(s, ch) = 0 THEN -1
    ELSE (CHOOSE i \in 1..Len(s) : s[i] = ch /\ \A j \in (i + 1)..Len(s) : s[j] # ch) - 1

Max(a, b) == IF a >= b THEN a ELSE b

\* str.isdigit()
IsDigit(s) == s # <<>> /\ \A i \in 1..Len(s) : s[i] \in Digits

\* Mutant of IsLotNumber: the length of the suffix is not looked at.
IsLotNumberAnyLength(suffix) == IsDigit(suffix)

\* suffix.isdigit() and len(suffix) <= 2
IsLotNumber(suffix) == IsDigit(suffix) /\ Len(suffix) <= 2

ExtractOperation(marche) ==
    IF marche = <<>> THEN <<>>
    ELSE LET normalized == Strip(marche)
             total_separators == Count(normalized, "_") + Count(normalized, "-")
             last_sep == Max(RFind(normalized, "_"), RFind(normalized, "-"))
             suffix == SubSeq(normalized, last_sep + 2, Len(normalized))
         IN  IF total_separators < 2 THEN normalized
             ELSE IF last_sep > 0 /\ IsLotNumber(suffix) THEN SubSeq(normalized, 1, last_sep)
             ELSE normalized

-----------------------------------------------------------------------------
(* MarchesAnalyzer.get_vision_globale *)

\* .dropna() then .iloc[0], "" if nothing is left
FirstNotNa(cells) ==
    LET kept == SelectSeq(cells, LAMBDA c : ~IsNa(c))
    IN  IF kept # <<>> THEN Str(kept[1]) ELSE <<>>

\* Mutant of Derived: what remains to be paid is counted from the initial amount.
DerivedFromInitial(montant_initial_marche, service_fait_cumule, paye_cumule) ==
    [reste_a_realiser |-> montant_initial_marche - service_fait_cumule,
     reste_a_mandater |-> montant_initial_marche - paye_cumule,
     pourcent_consomme |-> IF montant_initial_marche > 0
                           THEN [num |-> service_fait_cumule * 100, den |-> montant_initial_marche]
                           ELSE [num |-> 0, den |-> 1]]

\* lines 478-484: the derived amounts; the percentage is kept as an exact fraction
Derived(montant_initial_marche, service_fait_cumule, paye_cumule) ==
    [reste_a_realiser |-> montant_initial_marche - service_fait_cumule,
     reste_a_mandater |-> service_fait_cumule - paye_cumule,
     pourcent_consomme |-> IF montant_initial_marche > 0
                           THEN [num |-> service_fait_cumule * 100, den |-> montant_initial_marche]
                           ELSE [num |-> 0, den |-> 1]]

\* One iteration of the loop over marches_uniques
VisionGlobaleRow(df, store, marche) ==
    LET df_marche == SelectSeq(df, LAMBDA r : r.marche = marche)
        montant_bd == IF store.present THEN GetMontantTotalMarche(store, marche) ELSE 0
        tranches == Unique(Column(df_marche, "tranche"))
        montant_excel ==
            IF montant_bd > 0 THEN 0
            ELSE SumSeq([i \in 1..Len(tranches) |->
                            CalculateMontantInitialTranche(df, store, marche, tranches[i])])
        montant_initial_marche == IF montant_bd > 0 THEN montant_bd ELSE montant_excel
        service_fait_cumule ==
            SumSeq([i \in 1..Len(df_marche) |-> ToNumeric(df_marche[i].montant_sf)])
        df_mandates == SelectSeq(df_marche, MandatMask)
        paye_cumule ==
            SumSeq([i \in 1..Len(df_mandates) |-> ToNumeric(df_mandates[i].montant_ttc)])
        derived == Derived(montant_initial_marche, service_fait_cumule, paye_cumule)
    IN  [marche |-> marche,
         operation |-> ExtractOperation(marche),
         libelle_marche |-> FirstNotNa(Column(df_marche, "libelle")),
         fournisseur |-> FirstNotNa(Column(df_marche, "fournisseur")),
         montant_initial_marche |-> montant_initial_marche,
         service_fait_cumule |-> service_fait_cumule,
         paye_cumule |-> paye_cumule,
         reste_a_realiser |-> derived.reste_a_realiser,
         reste_a_mandater |-> derived.reste_a_mandater,
         pourcent_consomme |-> derived.pourcent_consomme,
         nb_avenants |-> IF montant_bd > 0 THEN Len(GetAvenants(store, marche)) ELSE 0,
         montant_excel |-> montant_excel]

\* list.sort(key=...): a stable insertion of each element after the elements
\* whose key is not greater
RECURSIVE SortByMarche(_)
SortByMarche(rows) ==
    IF rows = <<>> THEN <<>>
    ELSE LET sorted == SortByMarche(SubSeq(rows, 1, Len(rows) - 1))
             e == rows[Len(rows)]
             n == Cardinality({i \in 1..Len(sorted) : ~TextLess(e.marche, sorted[i].marche)})
         IN  SubSeq(sorted, 1, n) \o <<e>> \o SubSeq(sorted, n + 1, Len(sorted))

GetVisionGlobale(df, store) ==
    LET marches_uniques == Unique(Column(df, "marche"))
    IN  SortByMarche([i \in 1..Len(marches_uniques) |-> VisionGlobaleRow(df, store, marches_uniques[i])])

-----------------------------------------------------------------------------
(* MarchesAnalyzer.get_vision_operations *)

\* " | ".join(texts)
RECURSIVE JoinTexts(_)
JoinTexts(texts) ==
    IF texts = <<>> THEN <<>>
    ELSE IF Len(texts) = 1 THEN texts[1]
    ELSE texts[1] \o <<" ", "|", " ">> \o JoinTexts(Tail(texts))

\* Mutant of VisionOperationRow: only the first lot of the operation is summed.
VisionOperationRowFirstLot(vision_marches, operation) ==
    LET lots == SelectSeq(vision_marches, LAMBDA m : ExtractOperation(m.marche) = operation)
        derived == Derived(lots[1].montant_initial_marche, lots[1].service_fait_cumule, lots[1].paye_cumule)
    IN  [operation |-> operation,
         nb_lots |-> Len(lots),
         marches |-> Column(lots, "marche"),
         libelle |-> JoinTexts(Unique(SelectSeq(Column(lots, "libelle_marche"), LAMBDA t : t # <<>>))),
         fournisseur |-> JoinTexts(Unique(SelectSeq(Column(lots, "fournisseur"), LAMBDA t : t # <<>>))),
         montant_initial_total |-> lots[1].montant_initial_marche,
         service_fait_total |-> lots[1].service_fait_cumule,
         paye_total |-> lots[1].paye_cumule,
         reste_a_realiser |-> derived.reste_a_realiser,
         reste_a_mandater |-> derived.reste_a_mandater,
         pourcent_consomme |-> derived.pourcent_consomme,
         nb_avenants_total |-> lots[1].nb_avenants]

\* The entry of operations_dict for one operation, then its result row
VisionOperationRow(vision_marches, operation) ==
    LET lots == SelectSeq(vision_marches, LAMBDA m : ExtractOperation(m.marche) = operation)
        montant_initial == SumSeq(Column(lots, "montant_initial_marche"))
        sf_total == SumSeq(Column(lots, "service_fait_cumule"))
        paye_total == SumSeq(Column(lots, "paye_cumule"))
        derived == Derived(montant_initial, sf_total, paye_total)
    IN  [operation |-> operation,
         nb_lots |-> Len(lots),
         marches |-> Column(lots, "marche"),
         libelle |-> JoinTexts(Unique(SelectSeq(Column(lots, "libelle_marche"), LAMBDA t : t # <<>>))),
         fournisseur |-> JoinTexts(Unique(SelectSeq(Column(lots, "fournisseur"), LAMBDA t : t # <<>>))),
         montant_initial_total |-> montant_initial,
         service_fait_total |-> sf_total,
         paye_total |-> paye_total,
         reste_a_realiser |-> derived.reste_a_realiser,
         reste_a_mandater |-> derived.reste_a_mandater,
         pourcent_consomme |-> derived.pourcent_consomme,
         nb_avenants_total |-> SumSeq(Column(lots, "nb_avenants"))]

\* results.sort(key=lambda x: x['operation'])
RECURSIVE SortByOperation(_)
SortByOperation(rows) ==
    IF rows = <<>> THEN <<>>
    ELSE LET sorted == SortByOperation(SubSeq(rows, 1, Len(rows) - 1))
             e == rows[Len(rows)]
             n == Cardinality({i \in 1..Len(sorted) : ~TextLess(e.operation, sorted[i].operation)})
         IN  SubSeq(sorted, 1, n) \o <<e>> \o SubSeq(sorted, n + 1, Len(sorted))

GetVisionOperations(df, store) ==
    LET vision_marches == GetVisionGlobale(df, store)
        operations == Unique([i \in 1..Len(vision_marches) |-> ExtractOperation(vision_marches[i].marche)])
    IN  SortByOperation([i \in 1..Len(operations) |-> VisionOperationRow(vision_marches, operations[i])])

-----------------------------------------------------------------------------
(* MarchesAnalyzer.get_vision_detaillee *)

\* Mutant of TrancheLibelle: the tranche is shown as it is.
TrancheLibelleRaw(tranche) == Str(tranche)

\* lines 375-387: the display label of a tranche
TrancheLibelle(tranche) ==
    IF IsNa(tranche) THEN <<"S", "a", "n", "s", " ", "t", "r", "a", "n", "c", "h", "e">>
    ELSE IF tranche.kind = "num"
         THEN IF tranche.num = 0 THEN <<"T", "F">> ELSE <<"T", "O", ToString(tranche.num)>>
         ELSE Str(tranche)

\* One iteration of the loop over the groups
VisionDetailleeRow(df, store, marche, tranche) ==
    LET montant_initial == CalculateMontantInitialTranche(df, store, marche, tranche)
        service_fait == CalculateServiceFaitTranche(df, marche, tranche)
    IN  [marche |-> marche,
         tranche |-> tranche,
         tranche_libelle |-> TrancheLibelle(tranche),
         montant_initial_tranche |-> montant_initial,
         service_fait_tranche |-> service_fait,
         paye_tranche |-> CalculatePayeTranche(df, marche, tranche),
         pourcent_consomme_tranche |->
            IF montant_initial > 0 THEN [num |-> service_fait * 100, den |-> montant_initial]
            ELSE [num |-> 0, den |-> 1]]

\* results.sort(key=(marche, tranche, or -1 for a missing tranche)), stable
RECURSIVE SortDetaillee(_)
SortDetaillee(rows) ==
    IF rows = <<>> THEN <<>>
    ELSE LET sorted == SortDetaillee(SubSeq(rows, 1, Len(rows) - 1))
             e == rows[Len(rows)]
             key(x) == IF IsNa(x.tranche) THEN -1 ELSE x.tranche.num
             less(a, b) == \/ TextLess(a.marche, b.marche)
                           \/ a.marche = b.marche /\ key(a) < key(b)
             n == Cardinality({i \in 1..Len(sorted) : ~less(e, sorted[i])})
         IN  SubSeq(sorted, 1, n) \o <<e>> \o SubSeq(sorted, n + 1, Len(sorted))

\* results.sort compares the tranches of two rows of one contract: a number
\* and a text cannot be compared (TypeError).
SortDetailleeRaises(df) ==
    \E i, j \in 1..Len(df) :
        /\ df[i].marche = df[j].marche
        /\ df[i].tranche.kind = "num"
        /\ df[j].tranche.kind = "text"

\* groupby([marche, tranche]) keeps its default dropna=True: the rows whose
\* tranche is missing belong to no group.
GetVisionDetaillee(df, store) ==
    IF df = <<>> THEN <<>>
    ELSE LET keyed == SelectSeq(df, LAMBDA r : ~IsNa(r.tranche))
             grouped == Unique([i \in 1..Len(keyed) |-> <<keyed[i].marche, keyed[i].tranche>>])
         IN  SortDetaillee([i \in 1..Len(grouped) |->
                                VisionDetailleeRow(df, store, grouped[i][1], grouped[i][2])])

-----------------------------------------------------------------------------
(* MarchesAnalyzer.get_historique_factures *)

\* Mutant of Statut: the invoice number is looked at before the mandate.
StatutFactureFirst(has_mandat, has_sf, has_facture) ==
    IF has_facture THEN "Facturee"
    ELSE IF has_mandat THEN "Paye"
    ELSE IF has_sf THEN "Service fait"
    ELSE "En attente"

\* lines 723-730 (the labels without their pictograms)
Statut(has_mandat, has_sf, has_facture) ==
    IF has_mandat THEN "Paye"
    ELSE IF has_sf THEN "Service fait"
    ELSE IF has_facture THEN "Facturee"
    ELSE "En attente"

\* pd.notna(x) and str(x).strip() != ''
HasText(cell) == ~IsNa(cell) /\ Strip(Str(cell)) # <<>>

\* str(x) if pd.notna(x) else ""
StrOrEmpty(cell) == IF IsNa(cell) THEN <<>> ELSE Str(cell)

\* One iteration of the loop over df_filtered
HistoriqueRow(r) ==
    [marche |-> r.marche,
     fournisseur |-> StrOrEmpty(r.fournisseur),
     date_sf |-> DateSfStr(r.date_sf),
     num_facture |-> StrOrEmpty(r.num_facture),
     libelle |-> StrOrEmpty(r.libelle),
     montant_sf |-> FloatOrZero(r.montant_sf),
     montant_ttc |-> FloatOrZero(r.montant_ttc),
     num_mandat |-> StrOrEmpty(r.num_mandat),
     statut |-> Statut(HasText(r.num_mandat),
                       FloatOrZero(r.montant_sf) > Epsilon,
                       HasText(r.num_facture))]

\* (marche, date_sf) of a is smaller than that of b
HistoriqueKeyLess(a, b) ==
    \/ TextLess(a.marche, b.marche)
    \/ a.marche = b.marche /\ LexLess(a.date_sf, b.date_sf)

\* results.sort(key=lambda x: (x['marche'], x['date_sf']), reverse=True): stable,
\* greatest key first
RECURSIVE SortHistorique(_)
SortHistorique(rows) ==
    IF rows = <<>> THEN <<>>
    ELSE LET sorted == SortHistorique(SubSeq(rows, 1, Len(rows) - 1))
             e == rows[Len(rows)]
             n == Cardinality({i \in 1..Len(sorted) : ~HistoriqueKeyLess(sorted[i], e)})
         IN  SubSeq(sorted, 1, n) \o <<e>> \o SubSeq(sorted, n + 1, Len(sorted))

\* marche is <<>> for None or ""
GetHistoriqueFactures(df, marche) ==
    LET df_filtered == IF marche # <<>> THEN SelectSeq(df, LAMBDA r : r.marche = marche) ELSE df
    IN  SortHistorique([i \in 1..Len(df_filtered) |-> HistoriqueRow(df_filtered[i])])

-----------------------------------------------------------------------------
(* MarchesAnalyzer: the calls *)

CalculateMontantInitialTrancheCall(marche, tranche) ==
    /\ out' = [NoOut EXCEPT !.op = "montant_initial_tranche", !.marche = marche, !.tranche = tranche,
                            !.montant = CalculateMontantInitialTranche(df_marches, db, marche, tranche)]
    /\ UNCHANGED <<syncVars, df_marches, db, marche_arg>>

CalculateServiceFaitTrancheCall(marche, tranche) ==
    /\ out' = [NoOut EXCEPT !.op = "service_fait_tranche", !.marche = marche, !.tranche = tranche,
                            !.montant = CalculateServiceFaitTranche(df_marches, marche, tranche)]
    /\ UNCHANGED <<syncVars, df_marches, db, marche_arg>>

CalculatePayeTrancheCall(marche, tranche) ==
    /\ out' = [NoOut EXCEPT !.op = "paye_tranche", !.marche = marche, !.tranche = tranche,
                            !.montant = CalculatePayeTranche(df_marches, marche, tranche)]
    /\ UNCHANGED <<syncVars, df_marches, db, marche_arg>>

GetVisionGlobaleCall ==
    /\ out' = [NoOut EXCEPT !.op = "vision_globale", !.rows = GetVisionGlobale(df_marches, db)]
    /\ UNCHANGED <<syncVars, df_marches, db, marche_arg>>

GetVisionDetailleeCall ==
    /\ out' = IF SortDetailleeRaises(df_marches)
              THEN [NoOut EXCEPT !.op = "raised", !.text = <<"TypeError">>]
              ELSE [NoOut EXCEPT !.op = "vision_detaillee", !.rows = GetVisionDetaillee(df_marches, db)]
    /\ UNCHANGED <<syncVars, df_marches, db, marche_arg>>

GetVisionOperationsCall ==
    /\ out' = [NoOut EXCEPT !.op = "vision_operations", !.rows = GetVisionOperations(df_marches, db)]
    /\ UNCHANGED <<syncVars, df_marches, db, marche_arg>>

GetHistoriqueFacturesCall(marche) ==
    /\ out' = [NoOut EXCEPT !.op = "historique_factures", !.marche = marche,
                            !.rows = GetHistoriqueFactures(df_marches, marche)]
    /\ UNCHANGED <<syncVars, df_marches, db, marche_arg>>

ExtractOperationCall ==
    /\ out' = [NoOut EXCEPT !.op = "operation", !.marche = marche_arg,
                            !.text = ExtractOperation(marche_arg)]
    /\ UNCHANGED <<syncVars, df_marches, db, marche_arg>>

\* _calculate_row_hash applied to the two rows of the frame
CalculateRowHashCall ==
    /\ out' = [NoOut EXCEPT !.op = "row_hash",
                            !.rows = [i \in 1..Len(df_marches) |-> CalculateRowHash(df_marches[i])]]
    /\ UNCHANGED <<syncVars, df_marches, db, marche_arg>>

GetMontantTotalMarcheCall(code_marche) ==
    /\ out' = [NoOut EXCEPT !.op = "montant_total_marche", !.marche = code_marche,
                            !.montant = GetMontantTotalMarche(db, code_marche)]
    /\ UNCHANGED <<syncVars, df_marches, db, marche_arg>>

\* The application changes the override store (upsert_marche, add_avenant,
\* add_tranche, the update and delete methods) between two calls of the
\* analyzer; the result of the call before is dropped.
EnvUpdateStore(store) ==
    /\ db.present
    /\ store # db
    /\ db' = store
    /\ out' = NoOut
    /\ UNCHANGED <<syncVars, df_marches, marche_arg>>

\* The environment makes the Excel file unreadable (locked, permissions) or
\* readable again.
EnvChmod(readable) ==
    /\ files["f"].readable # readable
    /\ files' = [files EXCEPT !["f"].readable = readable]
    /\ UNCHANGED <<anaVars, lignes_factures, sync_info, writer, tx, pc, arg, existing_hashes,
                   stats, ret, pre, prev, untouched, lastCommit>>

-----------------------------------------------------------------------------
(* Specifications of the cache *)

InitFiles ==
    [k \in Keys |-> IF k = "f" THEN [exists |-> TRUE, readable |-> TRUE, content |-> "x", mtime |-> 0]
                    ELSE [exists |-> FALSE, readable |-> FALSE, content |-> "", mtime |-> 0]]

InitSync(open) ==
    /\ files = InitFiles
    /\ lignes_factures = {}
    /\ sync_info = <<>>
    /\ writer = 0
    /\ tx = [c \in Conn |-> NoTx]
    /\ pc = [c \in Conn |-> IF c \in open THEN "idle" ELSE "closed"]
    /\ arg = [c \in Conn |-> NoArg]
    /\ existing_hashes = [c \in Conn |-> {}]
    /\ stats = [c \in Conn |-> InitStats]
    /\ ret = [c \in Conn |-> NoRet]
    /\ pre = [c \in Conn |-> NoDb]
    /\ prev = [c \in Conn |-> NoPrev]
    /\ untouched = [c \in Conn |-> FALSE]
    /\ lastCommit = 0

InitCache(open) == InitSync(open) /\ AnalyzerUnused

\* The calls a client makes on one of the connections, with inputs drawn from
\* the given sets.
NextCache(keys, frames, forces) ==
    \/ \E c \in Conn, k \in keys, df \in frames, force \in forces : SyncCall(c, k, df, force)
    \/ \E c \in Conn : SyncRead(c)
    \/ \E c \in Conn : SyncInsert(c)
    \/ \E c \in Conn : SyncDelete(c)
    \/ \E c \in Conn : SyncSnapshot(c)
    \/ \E c \in Conn : SyncCommit(c)
    \/ \E c \in Conn : SyncFail(c)
    \/ \E c \in Conn : ClearCache(c)

NextEnv == \E content \in Contents, dt \in 0..MaxTime : EnvWriteFile(content, dt)

\* One MarchesSync instance fed with every DataFrame, each call forced
\* (load_data(force_reload=True)); the Excel file is left alone meanwhile.
Init == InitCache({1})
Next == NextCache({"f"}, DataFrames, {TRUE})
Spec == Init /\ [][Next]_vars

\* One MarchesSync instance fed from an Excel file that changes over time.
FileFrames == {<<>>, <<(<<"M1", "10">>)>>}
InitFile == InitCache({1})
NextFile == NextCache(Keys, FileFrames, BOOLEAN) \/ NextEnv
SpecFile == InitFile /\ [][NextFile]_vars

\* One MarchesSync instance fed in turn from the Excel file and from the
\* application database, with rows that come and go.
KeyFrames == SeqsUpTo({<<"M1", "10">>, <<"M2", "10">>}, MaxRows)
InitKeys == InitCache({1})
NextKeys == NextCache(Keys, KeyFrames, BOOLEAN)
SpecKeys == InitKeys /\ [][NextKeys]_vars

\* One MarchesSync instance fed from an Excel file that changes over time and
\* cannot always be read.
InitUnreadable == InitCache({1})
NextUnreadable ==
    \/ NextCache({"f"}, {<<(<<"M1", "10">>)>>}, BOOLEAN)
    \/ NextEnv
    \/ \E readable \in BOOLEAN : EnvChmod(readable)
SpecUnreadable == InitUnreadable /\ [][NextUnreadable]_vars

\* Two MarchesSync instances on the same database file.
ConcFrames == {<<(<<"M1", "10">>)>>, <<(<<"M2", "10">>)>>}
InitConc == InitCache({1, 2})
NextConc == NextCache({"database_sync"}, ConcFrames, {TRUE})
SpecConc == InitConc /\ [][NextConc]_vars

-----------------------------------------------------------------------------
(* Claims on the cache *)

Returned(c) == pc[c] = "idle" /\ ret[c].status # "none"

\* C1: a successful sync reports nb_inserted = |N \ S|, nb_deleted = |S \ N| and
\* nb_unchanged = |N \cap S| for the stored hash set S and the incoming hash set
\* N, also when incoming rows share a hash, and leaves exactly N stored.
C1_SyncDiffCounts ==
    \A c \in Conn :
        (Returned(c) /\ ret[c].status = "success") =>
            LET S == HashesOf(pre[c].lignes)
                N == NewHashes(arg[c].df)
            IN  /\ ret[c].nb_inserted = Cardinality(N \ S)
                /\ ret[c].nb_deleted = Cardinality(S \ N)
                /\ ret[c].nb_unchanged = Cardinality(N \cap S)
                /\ HashesOf(lignes_factures) = N

\* C2: a sync that fails at any step returns status 'error' and leaves the
\* database, rows and snapshots together, as it was before the call, both as
\* committed and as the connection itself reads it; while the call runs the
\* committed database does not change either.
C2_FailedSyncChangesNothing ==
    \A c \in Conn :
        /\ pc[c] \in {"read", "insert", "delete", "snapshot", "commit"} => Committed = pre[c]
        /\ (Returned(c) /\ ret[c].status = "error") =>
              /\ Committed = pre[c]
              /\ View(c) = pre[c]
              /\ ~tx[c].active
              /\ writer # c

\* C2 witness: a call failed after its INSERT and DELETE had been executed.
C2_Witness ==
    /\ Returned(1) /\ ret[1].status = "error"
    /\ ret[1].nb_inserted > 0 /\ ret[1].nb_deleted > 0

\* C3 as stated: for every source key and row sequence, a second identical call
\* without force, the source not modified since the first call (which returned
\* normally), returns 'skipped' and leaves the stored rows as they were.
C3_RepeatedSyncSkipped ==
    \A c \in Conn :
        (Returned(c) /\ prev[c].again /\ prev[c].status # "error") =>
            /\ ret[c].status = "skipped"
            /\ lignes_factures = pre[c].lignes

\* C3 amended: the same holds for a source key that names an existing file and
\* a non-empty row sequence.
C3_RepeatedSyncSkippedAmended ==
    \A c \in Conn :
        (/\ Returned(c) /\ prev[c].again /\ prev[c].status # "error"
         /\ files[arg[c].filepath].exists
         /\ arg[c].df # <<>>) =>
            /\ ret[c].status = "skipped"
            /\ lignes_factures = pre[c].lignes

\* C3 witness: a successful sync of a non-empty DataFrame was repeated and skipped.
C3_Witness ==
    /\ Returned(1) /\ prev[1].again /\ prev[1].status = "success"
    /\ arg[1].df # <<>> /\ ret[1].status = "skipped"

\* C4: with a prior snapshot, file_needs_sync answers "no" only if the current
\* size and the current content hash both equal those of the latest snapshot.
C4_UnchangedOnlyIfSizeAndHashMatch ==
    \A k \in Keys :
        (/\ files[k].exists
         /\ HasSnapshot(sync_info, k)
         /\ ~FileNeedsSync(sync_info, files, k).needs) =>
            /\ FileSize(files[k]) = LastSnapshot(sync_info, k).file_size
            /\ CalculateFileHash(files[k]) = LastSnapshot(sync_info, k).file_hash

\* C5: two connections syncing the same database are serialized: once both are
\* done, the stored hashes are those of the sync that committed last.
C5_ConcurrentSyncsSerialized ==
    (/\ \A c \in Conn : pc[c] = "idle"
     /\ lastCommit # 0
     /\ ret[lastCommit].status = "success") =>
        HashesOf(lignes_factures) = NewHashes(arg[lastCommit].df)

-----------------------------------------------------------------------------
(* Specifications of the analyzer: the rows are loaded, the calls are made *)

InitAnalyzer(frames, stores, codes) ==
    /\ InitSync({})
    /\ df_marches \in frames
    /\ db \in stores
    /\ marche_arg \in codes
    /\ out = NoOut

\* (contract, tranche) pairs of the loaded rows
Pairs == {<<m, t>> \in Marches \X {NaN, Num(1)} : m = <<"1", "_", "1", "_", "1">> \/ t = Num(1)}

\* calculate_montant_initial_tranche over rows that differ in their initial amount
InitialCells == {NaN, Text(<<"x">>), Num(0), Num(1), Num(2), Num(50), Num(100), Num(-50)}
InitialRows == {AggRow(p[1], p[2], mi, NaN, NaN, NaN, NaN) : p \in Pairs, mi \in InitialCells}
InitInitial == InitAnalyzer(SeqsUpTo(InitialRows, MaxAggRows), DbStores, {<<>>})
NextInitial == \E m \in Marches, t \in Tranches : CalculateMontantInitialTrancheCall(m, t)
SpecInitial == InitInitial /\ [][NextInitial]_vars

\* the paid amounts over rows that differ in their TTC amount and mandate
MandatCells == {NaN, Text(<<>>), Text(<<" ">>), Text(<<"M", "7">>)}
PayeRows == {AggRow(p[1], p[2], NaN, NaN, ttc, mandat, NaN) :
                p \in Pairs, ttc \in {Num(500), NaN}, mandat \in MandatCells}
InitPaye == InitAnalyzer(SeqsUpTo(PayeRows, MaxAggRows), {NoDatabase, ManualDatabase}, {<<>>})
NextPaye ==
    \/ \E m \in Marches, t \in Tranches : CalculatePayeTrancheCall(m, t)
    \/ GetVisionGlobaleCall
SpecPaye == InitPaye /\ [][NextPaye]_vars

\* get_vision_globale over rows that differ in all the amounts it reads
GlobaleRows ==
    {AggRow(m, t, mi, sf, paid[1], paid[2], NaN) :
        m \in Marches, t \in {NaN, Num(1)}, mi \in {Num(0), Num(100)}, sf \in {NaN, Num(40)},
        paid \in {<<NaN, NaN>>, <<Num(30), Text(<<"M", "7">>)>>}}
InitGlobale == InitAnalyzer(SeqsUpTo(GlobaleRows, MaxAggRows), DbStores, {<<>>})
NextGlobale == GetVisionGlobaleCall
SpecGlobale == InitGlobale /\ [][NextGlobale]_vars

\* get_vision_detaillee over the same rows and override stores
NextDetaillee == GetVisionDetailleeCall
SpecDetaillee == InitGlobale /\ [][NextDetaillee]_vars

\* get_vision_detaillee over every kind of tranche: missing, zero, a number,
\* and a text that spells no number (on a contract of its own)
LibelleRows ==
    {AggRow(<<"1", "_", "1", "_", "1">>, t, NaN, sf, NaN, NaN, NaN) : t \in Tranches, sf \in {NaN, Num(40)}}
        \cup {AggRow(<<"1", "_", "2">>, Text(<<"x">>), NaN, sf, NaN, NaN, NaN) : sf \in {NaN, Num(40)}}
InitLibelle == InitAnalyzer(SeqsUpTo(LibelleRows, MaxAggRows), {NoDatabase, ManualDatabase}, {<<>>})
SpecLibelle == InitLibelle /\ [][NextDetaillee]_vars

\* get_historique_factures over rows that differ in the three signals of the status
FactureCells == {NaN, Text(<<>>), Text(<<" ">>), Text(<<"F", "1">>)}
HistRows ==
    {AggRow(m, NaN, NaN, sf, NaN, mandat, facture) :
        m \in Marches, sf \in {NaN, Text(<<"x">>), Num(1), Num(2)},
        mandat \in MandatCells, facture \in FactureCells}
InitHistorique == InitAnalyzer(SeqsUpTo(HistRows, MaxHistRows), {NoDatabase}, {<<>>})
NextHistorique == \E m \in Marches \cup {<<>>} : GetHistoriqueFacturesCall(m)
SpecHistorique == InitHistorique /\ [][NextHistorique]_vars

\* get_vision_operations over two lots of the operation 1_1 and the contract 1_2
OperationRows ==
    {AggRow(m, NaN, Num(100), sf, paid[1], paid[2], NaN) :
        m \in Marches \cup {<<"1", "_", "1", "_", "2">>}, sf \in {NaN, Num(40)},
        paid \in {<<NaN, NaN>>, <<Num(30), Text(<<"M", "7">>)>>}}
InitOperations == InitAnalyzer(SeqsUpTo(OperationRows, MaxAggRows), {NoDatabase, ManualDatabase}, {<<>>})
SpecOperations == InitOperations /\ [][GetVisionOperationsCall]_vars

\* Every aggregation over rows of which one numeric cell may be missing or
\* unparseable, the tranche being missing, a number or a text
BadCells == {NaN, Text(<<"x">>)}
NumericCells ==
    {<<Num(100), Num(40), Num(30)>>}
        \cup {<<bad, Num(40), Num(30)>> : bad \in BadCells}
        \cup {<<Num(100), bad, Num(30)>> : bad \in BadCells}
        \cup {<<Num(100), Num(40), bad>> : bad \in BadCells}
TotalityRows ==
    {AggRow(<<"1", "_", "1", "_", "1">>, t, c[1], c[2], c[3], Text(<<"M", "7">>), NaN) :
        t \in {NaN, Num(1), Text(<<"x">>)}, c \in NumericCells}
InitTotality == InitAnalyzer(SeqsUpTo(TotalityRows, MaxAggRows), {NoDatabase}, {<<>>})
NextTotality ==
    \/ \E t \in {NaN, Num(1)} : CalculateMontantInitialTrancheCall(<<"1", "_", "1", "_", "1">>, t)
    \/ \E t \in {NaN, Num(1)} : CalculateServiceFaitTrancheCall(<<"1", "_", "1", "_", "1">>, t)
    \/ \E t \in {NaN, Num(1)} : CalculatePayeTrancheCall(<<"1", "_", "1", "_", "1">>, t)
    \/ GetVisionGlobaleCall
    \/ GetVisionDetailleeCall
    \/ GetVisionOperationsCall
    \/ GetHistoriqueFacturesCall(<<>>)
SpecTotality == InitTotality /\ [][NextTotality]_vars

\* get_historique_factures over rows that differ in contract and date: no
\* date, 1 February 2024 and 2 January 2024 as Timestamps
OrderDates == {NaT, [kind |-> "ts", ymd |-> <<2024, 2, 1>>], [kind |-> "ts", ymd |-> <<2024, 1, 2>>]}
OrderRows == {[AggRow(m, NaN, NaN, NaN, NaN, NaN, NaN) EXCEPT !.date_sf = d] : m \in Marches, d \in OrderDates}
InitOrder == InitAnalyzer(SeqsUpTo(OrderRows, MaxAggRows), {NoDatabase}, {<<>>})
SpecOrder == InitOrder /\ [][NextHistorique]_vars

\* extract_operation over every short code
CodeChars == {"1", "_", "-", "G", " "}
InitOperation == InitAnalyzer({<<>>}, {NoDatabase}, SeqsUpTo(CodeChars, MaxCodeLen))
NextOperation == ExtractOperationCall
SpecOperation == InitOperation /\ [][NextOperation]_vars

\* _calculate_row_hash on every pair of rows whose cells may hold the separator
HashCells == {"M1", "M1|10", "10", "10|10"}
HashRows == HashCells \X HashCells
InitRowHash == InitAnalyzer({<<r1, r2>> : r1 \in HashRows, r2 \in HashRows}, {NoDatabase}, {<<>>})
NextRowHash == CalculateRowHashCall
SpecRowHash == InitRowHash /\ [][NextRowHash]_vars

-----------------------------------------------------------------------------
(* Claims on the analyzer *)

\* The loaded rows of a contract and tranche, a missing tranche matching a missing one.
RowsOfPair(m, t) == {i \in 1..Len(df_marches) : df_marches[i].marche = m /\ df_marches[i].tranche = t}

\* C6: with no override applying, calculate_montant_initial_tranche is the sum
\* of the distinct strictly positive initial amounts of the rows of the pair,
\* each counted once, the others counting for nothing; 0 when no row matches.
C6_SumOfDistinctPositive ==
    (/\ out.op = "montant_initial_tranche"
     /\ ~(db.present /\ MontantFromDb(db, out.marche, out.tranche) # 0)) =>
        out.montant = SumSet({v \in {ToNumeric(df_marches[i].montant_initial) :
                                        i \in RowsOfPair(out.marche, out.tranche)} : v > 0})

\* A mandate reference that is neither missing nor the empty text.
MandateNonEmpty(r) == ~IsNa(r.num_mandat) /\ Str(r.num_mandat) # <<>>

\* What one row adds to the paid amount.
PaidContribution(r) == IF MandateNonEmpty(r) THEN ToNumeric(r.montant_ttc) ELSE 0

\* C7: calculate_paye_tranche and paye_cumule are the sum, over the matching
\* rows, of the TTC amount of a row with a non-empty mandate reference and of 0
\* for a row with an empty or missing one.
C7_PaidRequiresMandate ==
    /\ out.op = "paye_tranche" =>
          out.montant = SumSeq([i \in 1..Len(df_marches) |->
                                  IF i \in RowsOfPair(out.marche, out.tranche)
                                  THEN PaidContribution(df_marches[i]) ELSE 0])
    /\ out.op = "vision_globale" =>
          \A j \in 1..Len(out.rows) :
              out.rows[j].paye_cumule =
                  SumSeq([i \in 1..Len(df_marches) |->
                            IF df_marches[i].marche = out.rows[j].marche
                            THEN PaidContribution(df_marches[i]) ELSE 0])

\* C7 witness: of two rows of the queried tranche with the same TTC amount, only
\* the one with a mandate was counted.
C7_Witness ==
    /\ out.op = "paye_tranche"
    /\ \E i, j \in RowsOfPair(out.marche, out.tranche) :
          /\ df_marches[i].num_mandat = Text(<<"M", "7">>)
          /\ df_marches[j].num_mandat \in {NaN, Text(<<>>)}
          /\ ToNumeric(df_marches[i].montant_ttc) > 0
          /\ df_marches[j].montant_ttc = df_marches[i].montant_ttc
          /\ out.montant = ToNumeric(df_marches[i].montant_ttc)

\* C8: every row of get_vision_globale satisfies
\* reste_a_realiser + service_fait_cumule = montant_initial_marche,
\* reste_a_mandater + paye_cumule = service_fait_cumule, and pourcent_consomme is
\* 100 * service_fait_cumule / montant_initial_marche when the initial amount is
\* positive and 0 otherwise.
C8_VisionGlobaleInvariants ==
    out.op = "vision_globale" =>
        \A j \in 1..Len(out.rows) :
            LET r == out.rows[j]
            IN  /\ r.reste_a_realiser + r.service_fait_cumule = r.montant_initial_marche
                /\ r.reste_a_mandater + r.paye_cumule = r.service_fait_cumule
                /\ r.pourcent_consomme.den > 0
                /\ IF r.montant_initial_marche > 0
                   THEN r.pourcent_consomme.num * r.montant_initial_marche
                            = 100 * r.service_fait_cumule * r.pourcent_consomme.den
                   ELSE r.pourcent_consomme.num = 0

\* C8 witness: one contract with an initial amount, service fait and payments,
\* next to one without an initial amount.
C8_Witness ==
    /\ out.op = "vision_globale"
    /\ \E j, k \in 1..Len(out.rows) :
          /\ out.rows[j].montant_initial_marche > 0
          /\ out.rows[j].service_fait_cumule > out.rows[j].paye_cumule
          /\ out.rows[j].paye_cumule > 0
          /\ out.rows[k].montant_initial_marche = 0
          /\ out.rows[k].service_fait_cumule > 0

IsSeparator(ch) == ch \in {"_", "-"}

\* The position of the separator that starts a lot number: one or two digits
\* follow it to the end of the code and another separator precedes it.
LotSeparators(code) ==
    {k \in 1..Len(code) :
        /\ IsSeparator(code[k])
        /\ \E j \in 1..(k - 1) : IsSeparator(code[j])
        /\ Len(code) - k \in 1..2
        /\ \A i \in (k + 1)..Len(code) : code[i] \in Digits}

\* The separator rule: the code without its lot number, else the code itself.
OperationOf(code) ==
    IF LotSeparators(code) # {}
    THEN SubSeq(code, 1, (CHOOSE k \in LotSeparators(code) : TRUE) - 1)
    ELSE code

\* C9 as stated: extract_operation follows the separator rule on the code as given.
C9_SeparatorRule == out.op = "operation" => out.text = OperationOf(marche_arg)

\* C9 amended: extract_operation follows the separator rule on the code without
\* its leading and trailing whitespace.
C9_SeparatorRuleStripped == out.op = "operation" => out.text = OperationOf(Strip(marche_arg))

\* C9 witness: a lot number was removed from a code given with whitespace around it.
C9_Witness ==
    /\ out.op = "operation"
    /\ marche_arg # Strip(marche_arg)
    /\ out.text # Strip(marche_arg)

\* The status by priority of the three signals.
StatusByPriority(mandate, service_fait, invoice) ==
    CASE mandate -> "Paye"
      [] ~mandate /\ service_fait -> "Service fait"
      [] ~mandate /\ ~service_fait /\ invoice -> "Facturee"
      [] OTHER -> "En attente"

\* C10 as stated: in every row of get_historique_factures a non-empty mandate
\* reference gives 'Paye'; else a service-fait amount above 0.01 gives 'Service
\* fait'; else a non-empty invoice number gives 'Facturee'; else 'En attente'.
C10_StatusPriority ==
    out.op = "historique_factures" =>
        \A j \in 1..Len(out.rows) :
            out.rows[j].statut = StatusByPriority(out.rows[j].num_mandat # <<>>,
                                                  out.rows[j].montant_sf > Epsilon,
                                                  out.rows[j].num_facture # <<>>)

\* C10 amended: the same, a mandate reference or invoice number counting as
\* non-empty when something is left of it once the surrounding whitespace is
\* removed; and there is one row per loaded row of the contract asked for.
C10_StatusPriorityStripped ==
    out.op = "historique_factures" =>
        /\ Len(out.rows) = Cardinality({i \in 1..Len(df_marches) :
                                           out.marche \in {<<>>, df_marches[i].marche}})
        /\ \A j \in 1..Len(out.rows) :
              out.rows[j].statut = StatusByPriority(Strip(out.rows[j].num_mandat) # <<>>,
                                                    out.rows[j].montant_sf > Epsilon,
                                                    Strip(out.rows[j].num_facture) # <<>>)

\* C10 witness: a row whose mandate reference is a blank, with a service-fait
\* amount and an invoice number, got the status 'Service fait'.
C10_Witness ==
    /\ out.op = "historique_factures"
    /\ \E j \in 1..Len(out.rows) :
          /\ out.rows[j].num_mandat = <<" ">>
          /\ out.rows[j].montant_sf > Epsilon
          /\ out.rows[j].num_facture = <<"F", "1">>
          /\ out.rows[j].statut = "Service fait"

-----------------------------------------------------------------------------
(* Specifications of the analyzer with an override store *)

\* calculate_montant_initial_tranche against every override of contract 1_1_1
OverrideRows ==
    {AggRow(<<"1", "_", "1", "_", "1">>, t, mi, NaN, NaN, NaN, NaN) : t \in Tranches, mi \in {Num(50), Num(100)}}
InitOverride ==
    InitAnalyzer(SeqsUpTo(OverrideRows, MaxAggRows), {NoDatabase} \cup OverrideStores({<<>>}), {<<>>})
NextOverride == \E m \in Marches, t \in Tranches : CalculateMontantInitialTrancheCall(m, t)
SpecOverride == InitOverride /\ [][NextOverride]_vars

\* get_montant_total_marche against every override and list of amendments
AvenantLists == SeqsUpTo(AvenantRecords, MaxAvenants)
InitTotal == InitAnalyzer({<<>>}, OverrideStores(AvenantLists), {<<>>})
NextTotal == \E code_marche \in Marches : GetMontantTotalMarcheCall(code_marche)
SpecTotal == InitTotal /\ [][NextTotal]_vars

\* get_vision_globale against every override and list of amendments
TotalRows ==
    {AggRow(<<"1", "_", "1", "_", "1">>, t, Num(50), NaN, NaN, NaN, NaN) : t \in {NaN, Num(1)}}
        \cup {AggRow(<<"1", "_", "2">>, Num(1), Num(100), NaN, NaN, NaN, NaN)}
InitGlobaleTotal == InitAnalyzer(SeqsUpTo(TotalRows, MaxAggRows), OverrideStores(AvenantLists), {<<>>})
NextGlobaleTotal == GetVisionGlobaleCall
SpecGlobaleTotal == InitGlobaleTotal /\ [][NextGlobaleTotal]_vars

\* The analyzer of the contract 1_1_1 over an override store that is empty at
\* first and changes between the calls
RereadStores ==
    {[present |-> TRUE, marches |-> recs, tranches |-> ts, avenants |-> avs] :
        recs \in {{}, {[code_marche |-> <<"1", "_", "1", "_", "1">>, montant_initial_manuel |-> 200,
                        type_marche |-> "CLASSIQUE"]}},
        ts \in {<<>>, <<TrancheTO1>>},
        avs \in SeqsUpTo({[code_marche |-> <<"1", "_", "1", "_", "1">>, montant |-> 10,
                           type_modification |-> "Augmentation"]}, MaxAvenants)}
InitReread == InitAnalyzer(SeqsUpTo(OverrideRows, MaxAggRows), {EmptyDatabase}, {<<>>})
NextReread ==
    \/ \E t \in Tranches : CalculateMontantInitialTrancheCall(<<"1", "_", "1", "_", "1">>, t)
    \/ GetVisionGlobaleCall
    \/ \E store \in RereadStores : EnvUpdateStore(store)
SpecReread == InitReread /\ [][NextReread]_vars

-----------------------------------------------------------------------------
(* Claims on the override store *)

IsFirm(t) == IsNa(t) \/ t = Num(0)

\* The manual base amount the store holds for a contract, 0 if it holds none.
ManualBase(m) ==
    IF \E r \in db.marches : r.code_marche = m
    THEN (CHOOSE r \in db.marches : r.code_marche = m).montant_initial_manuel
    ELSE 0

\* The amounts of the Tranche records of a contract and tranche code.
TrancheAmounts(m, code) ==
    {db.tranches[i].montant : i \in {j \in 1..Len(db.tranches) :
        db.tranches[j].code_marche = m /\ db.tranches[j].code_tranche = code}} \ {0}

TrancheCodeOf(t) == IF IsFirm(t) THEN <<"T", "F">> ELSE <<"T", "O", ToString(t.num)>>

OverrideTotal(m) ==
    IF ~\E r \in db.marches : r.code_marche = m THEN 0
    ELSE LET rec == CHOOSE r \in db.marches : r.code_marche = m
             av == {i \in 1..Len(db.avenants) : db.avenants[i].code_marche = m}
             decreases == {i \in av : db.avenants[i].type_modification = "Diminution"}
             tr == {i \in 1..Len(db.tranches) : db.tranches[i].code_marche = m}
         IN  rec.montant_initial_manuel
                + SumSeq([i \in 1..Len(db.avenants) |->
                            IF i \in av \ decreases THEN db.avenants[i].montant ELSE 0])
                - SumSeq([i \in 1..Len(db.avenants) |->
                            IF i \in decreases THEN db.avenants[i].montant ELSE 0])
                + IF rec.type_marche \in {"CLASSIQUE", NULL}
                  THEN SumSeq([i \in 1..Len(db.tranches) |->
                                  IF i \in tr THEN db.tranches[i].montant ELSE 0])
                  ELSE 0

\* C12: in get_vision_globale, whenever the store holds a positive manual base
\* amount for a contract, montant_initial_marche is the override-resolved total.
C12_PositiveManualGivesOverrideTotal ==
    out.op = "vision_globale" =>
        \A j \in 1..Len(out.rows) :
            (db.present /\ ManualBase(out.rows[j].marche) > 0) =>
                out.rows[j].montant_initial_marche = OverrideTotal(out.rows[j].marche)

-----------------------------------------------------------------------------
(* Further claims on the cache *)

\* C14: a call that returned 'skipped' has changed nothing in storage: the
\* committed rows and snapshots are those found at the call, and the connection
\* holds no pending write.
C14_SkippedChangesNothing ==
    \A c \in Conn :
        (Returned(c) /\ ret[c].status = "skipped") =>
            /\ lignes_factures = pre[c].lignes
            /\ sync_info = pre[c].info
            /\ ~tx[c].active
            /\ writer # c

\* C14 witness: a call on a store that holds rows and a snapshot was skipped.
C14_Witness ==
    /\ Returned(1) /\ ret[1].status = "skipped"
    /\ lignes_factures # {}
    /\ sync_info # <<>>

\* C15: when the latest snapshot of a source records no row, file_needs_sync
\* answers "yes", also when the size and the content hash are the recorded ones.
C15_EmptySnapshotNeedsSync ==
    \A k \in Keys :
        (HasSnapshot(sync_info, k) /\ LastSnapshot(sync_info, k).nb_lignes = 0) =>
            FileNeedsSync(sync_info, files, k).needs

\* C15 witness: the file is exactly as the latest snapshot recorded it, and
\* that snapshot records no row.
C15_Witness ==
    /\ HasSnapshot(sync_info, "f")
    /\ LastSnapshot(sync_info, "f").nb_lignes = 0
    /\ LastSnapshot(sync_info, "f").file_size = FileSize(files["f"])
    /\ LastSnapshot(sync_info, "f").file_hash = CalculateFileHash(files["f"])
    /\ LastSnapshot(sync_info, "f").last_modified = files["f"].mtime
    /\ \A c \in Conn : pc[c] \in {"idle", "closed"}

\* C16: for an existing file whose content hash cannot be computed,
\* file_needs_sync answers "yes" whatever the snapshots contain.
C16_UnreadableNeedsSync ==
    \A k \in Keys :
        (files[k].exists /\ ~files[k].readable) => FileNeedsSync(sync_info, files, k).needs

\* The snapshot of a key that was appended last, as a one-snapshot history.
NewestOnly(k) ==
    <<sync_info[CHOOSE i \in 1..Len(sync_info) :
        /\ sync_info[i].fichier_path = k
        /\ \A j \in i + 1..Len(sync_info) : sync_info[j].fichier_path # k]>>

\* file_needs_sync and get_sync_status answer as if the newest snapshot of the
\* key were the only one.
LookupsUseNewest ==
    \A k \in Keys :
        (\E i \in 1..Len(sync_info) : sync_info[i].fichier_path = k) =>
            /\ FileNeedsSync(sync_info, files, k) = FileNeedsSync(NewestOnly(k), files, k)
            /\ GetSyncStatus(sync_info, k) = GetSyncStatus(NewestOnly(k), k)

\* The step appends one snapshot of the key of c's call and keeps the others.
AppendsOne(c) ==
    /\ Len(sync_info') = Len(sync_info) + 1
    /\ SubSeq(sync_info', 1, Len(sync_info)) = sync_info
    /\ sync_info'[Len(sync_info')].fichier_path = arg[c].filepath

\* C17 as stated: every sync attempt that is not skipped, failed ones
\* included, appends exactly one snapshot of its key and keeps the earlier
\* ones; the lookups decide from the newest snapshot of the key.
C17_EveryAttemptAppends ==
    [][/\ \A c \in Conn :
            (pc[c] \notin {"idle", "closed"} /\ pc'[c] = "idle") => AppendsOne(c)
       /\ LookupsUseNewest']_vars

\* C17 amended: a sync attempt that ends with status 'success' appends exactly
\* one snapshot of its key and keeps the earlier ones; an attempt that ends
\* with status 'error', and every step before the end of an attempt, leaves
\* the snapshots as they are; the lookups decide from the newest snapshot of
\* the key.
C17_SuccessfulSyncAppends ==
    [][/\ \A c \in Conn :
            /\ (pc[c] \notin {"idle", "closed"} /\ pc'[c] = "idle") =>
                    IF ret'[c].status = "success" THEN AppendsOne(c)
                    ELSE ret'[c].status = "error" /\ sync_info' = sync_info
            /\ (pc[c] \notin {"idle", "closed"} /\ pc'[c] # "idle") => sync_info' = sync_info
       /\ LookupsUseNewest']_vars

\* C17 witness: a second successful sync of the Excel file has appended a
\* snapshot that differs from the first one, which is still there.
C17_Witness ==
    /\ Len(sync_info) = 2
    /\ sync_info[1].fichier_path = "f" /\ sync_info[2].fichier_path = "f"
    /\ sync_info[1].nb_lignes # sync_info[2].nb_lignes
    /\ ret[1].status = "success"
    /\ pc[1] = "idle"

\* C18: when clear_cache has returned, the row store and the snapshot history
\* are empty, load_to_dataframe returns no row with or without a filter and
\* file_needs_sync answers "yes" for every source; a source gets a snapshot
\* again only by a successful sync of that source, and as long as it has none
\* file_needs_sync answers "yes" for it.
C18_ClearCacheEmpties ==
    [][/\ \A c \in Conn :
            (pc'[c] = "idle" /\ ret'[c].status = "cleared") =>
                /\ lignes_factures' = {}
                /\ sync_info' = <<>>
                /\ \A marche_filter \in {NULL, "", "M1", "M2"} :
                        LoadToDataframe(View(c).lignes, marche_filter)' = {}
                /\ \A k \in Keys : FileNeedsSync(View(c).info, files, k).needs'
       /\ \A k \in Keys :
            /\ (~HasSnapshot(sync_info, k) /\ HasSnapshot(sync_info', k)) =>
                    \E c \in Conn : /\ pc[c] = "commit" /\ arg[c].filepath = k
                                    /\ pc'[c] = "idle" /\ ret'[c].status = "success"
            /\ ~HasSnapshot(sync_info', k) => FileNeedsSync(sync_info', files', k).needs]_vars

\* C18 witness: clear_cache has returned on a cache that held rows and
\* snapshots of both sources, and the Excel file is still there.
C18_Witness ==
    /\ pc[1] = "idle" /\ ret[1].status = "cleared"
    /\ pre[1].lignes # {}
    /\ \A k \in Keys : HasSnapshot(pre[1].info, k)
    /\ files["f"].exists
    /\ lignes_factures = {} /\ sync_info = <<>>

\* C19: two rows that differ in at least one position get different hashes
\* (the text that is digested differs), and two rows with the same values in
\* the same order get the same hash.
C19_RowHashInjective ==
    out.op = "row_hash" =>
        (df_marches[1] = df_marches[2]) = (out.rows[1] = out.rows[2])

\* C20: get_vision_detaillee returns exactly one row for every (contract,
\* tranche) pair of the loaded rows, the pairs with a missing tranche
\* included, and no row for another pair.
C20_OneRowPerPair ==
    out.op = "vision_detaillee" =>
        LET pairs == {<<df_marches[i].marche, df_marches[i].tranche>> : i \in 1..Len(df_marches)}
        IN  /\ \A p \in pairs :
                Cardinality({j \in 1..Len(out.rows) :
                                out.rows[j].marche = p[1] /\ out.rows[j].tranche = p[2]}) = 1
            /\ \A j \in 1..Len(out.rows) : <<out.rows[j].marche, out.rows[j].tranche>> \in pairs

-----------------------------------------------------------------------------
(* Claims on the detailed and operation views *)

\* The label the statement gives a tranche: 'TF' for a missing or zero
\* tranche, 'TO{N}' for the non-zero number N, the raw value otherwise.
StatedLabel(t) ==
    IF IsNa(t) \/ t = Num(0) THEN <<"T", "F">>
    ELSE IF t.kind = "num" THEN <<"T", "O", ToString(t.num)>>
    ELSE t.text

Chronological(date_sf) ==
    IF date_sf = <<>> THEN <<0, 0, 0>> ELSE <<date_sf[3], date_sf[2], date_sf[1]>>

\* C22: the history is ordered by contract code ascending and, within one
\* contract, by service-fait date descending.
C22_HistoriqueOrder ==
    out.op = "historique_factures" =>
        \A j, k \in 1..Len(out.rows) :
            j < k =>
                /\ ~TextLess(out.rows[k].marche, out.rows[j].marche)
                /\ out.rows[j].marche = out.rows[k].marche =>
                        ~LexLess(Chronological(out.rows[j].date_sf), Chronological(out.rows[k].date_sf))

\* The rows of get_vision_globale whose operation is the given one
LotsOf(operation) ==
    SelectSeq(GetVisionGlobale(df_marches, db), LAMBDA m : OperationOf(Strip(m.marche)) = operation)

\* C23: every operation row carries the sums of the initial, service-fait and
\* paid amounts and of the amendment counts over the contract rows of
\* get_vision_globale with that operation code, nb_lots is the number of those
\* contracts, and every contract row belongs to exactly one operation row.
C23_OperationSums ==
    out.op = "vision_operations" =>
        /\ \A j \in 1..Len(out.rows) :
              LET r == out.rows[j]
                  lots == LotsOf(r.operation)
              IN  /\ r.montant_initial_total = SumSeq(Column(lots, "montant_initial_marche"))
                  /\ r.service_fait_total = SumSeq(Column(lots, "service_fait_cumule"))
                  /\ r.paye_total = SumSeq(Column(lots, "paye_cumule"))
                  /\ r.nb_avenants_total = SumSeq(Column(lots, "nb_avenants"))
                  /\ r.nb_lots = Len(lots)
                  /\ r.nb_lots > 0
        /\ \A i \in 1..Len(GetVisionGlobale(df_marches, db)) :
              Cardinality({j \in 1..Len(out.rows) :
                  \E n \in 1..Len(out.rows[j].marches) :
                      out.rows[j].marches[n] = GetVisionGlobale(df_marches, db)[i].marche}) = 1

\* C23 witness: the operation 1_1 sums two lots that both have service fait,
\* one of them with an amendment.
C23_Witness ==
    /\ out.op = "vision_operations"
    /\ \E j \in 1..Len(out.rows) :
          /\ out.rows[j].operation = <<"1", "_", "1">>
          /\ out.rows[j].nb_lots = 2
          /\ out.rows[j].service_fait_total = 80
          /\ out.rows[j].nb_avenants_total = 1

\* A numeric cell that is missing or unparseable, replaced by 0
ZeroIfBad(cell) == IF cell.kind = "num" THEN cell ELSE Num(0)

\* The loaded rows with 0 in place of every missing or unparseable amount
Cleaned ==
    [i \in 1..Len(df_marches) |->
        [df_marches[i] EXCEPT !.montant_initial = ZeroIfBad(@), !.montant_sf = ZeroIfBad(@),
                              !.montant_ttc = ZeroIfBad(@)]]

\* C24: over rows with missing or unparseable amounts, no aggregation raises
\* and each returns what it returns over the same rows with 0 in place of
\* those cells.
C24_BadCellsCountAsZero ==
    /\ out.op # "raised"
    /\ out.op = "montant_initial_tranche" =>
            out.montant = CalculateMontantInitialTranche(Cleaned, db, out.marche, out.tranche)
    /\ out.op = "service_fait_tranche" =>
            out.montant = CalculateServiceFaitTranche(Cleaned, out.marche, out.tranche)
    /\ out.op = "paye_tranche" => out.montant = CalculatePayeTranche(Cleaned, out.marche, out.tranche)
    /\ out.op = "vision_globale" => out.rows = GetVisionGlobale(Cleaned, db)
    /\ out.op = "vision_detaillee" => out.rows = GetVisionDetaillee(Cleaned, db)
    /\ out.op = "vision_operations" => out.rows = GetVisionOperations(Cleaned, db)
    /\ out.op = "historique_factures" => out.rows = GetHistoriqueFactures(Cleaned, out.marche)

-----------------------------------------------------------------------------
(* Claims on the analyzer and a changing override store *)

\* The initial amount of a tranche as the override store holds it now: the
\* manual base amount for the firm tranche, the Tranche record of an optional
\* tranche, else the amount of the rows.
ResolvedNow(m, t) ==
    IF IsFirm(t) /\ ManualBase(m) # 0 THEN ManualBase(m)
    ELSE IF ~IsFirm(t) /\ TrancheAmounts(m, TrancheCodeOf(t)) # {}
    THEN CHOOSE a \in TrancheAmounts(m, TrancheCodeOf(t)) : TRUE
    ELSE MontantFromExcel(df_marches, m, t)

\* C25: a call of calculate_montant_initial_tranche or get_vision_globale made
\* after the override store has changed returns what the store holds at the
\* time of that call, whatever it held at the calls before.
C25_StoreReadAtEachCall ==
    /\ out.op = "montant_initial_tranche" => out.montant = ResolvedNow(out.marche, out.tranche)
    /\ out.op = "vision_globale" =>
            \A j \in 1..Len(out.rows) :
                LET r == out.rows[j]
                    tranches == Unique(Column(SelectSeq(df_marches, LAMBDA x : x.marche = r.marche),
                                              "tranche"))
                    avenants == {i \in 1..Len(db.avenants) : db.avenants[i].code_marche = r.marche}
                IN  IF OverrideTotal(r.marche) > 0
                    THEN /\ r.montant_initial_marche = OverrideTotal(r.marche)
                         /\ r.nb_avenants = Cardinality(avenants)
                    ELSE /\ r.montant_initial_marche =
                                SumSeq([i \in 1..Len(tranches) |-> ResolvedNow(r.marche, tranches[i])])
                         /\ r.nb_avenants = 0

\* C25 witness: the store, empty when the analyzer was created, was given a
\* manual base amount and an amendment, and the contract view shows their sum.
C25_Witness ==
    /\ out.op = "vision_globale"
    /\ Len(out.rows) = 1
    /\ ManualBase(out.rows[1].marche) = 200
    /\ out.rows[1].nb_avenants = 1
    /\ out.rows[1].montant_initial_marche = 210

-----------------------------------------------------------------------------
(* Claims on the coherence of the cache *)

\* C26: on one connection, the row store is empty whenever the snapshot
\* history is empty; the committed rows change only in the step that appends
\* a snapshot, and that step leaves exactly the hashes of the rows passed to
\* that sync.  Hence the stored hash set is always that of the sync that
\* appended the most recent snapshot.
C26_StoreMatchesLastSync ==
    [][/\ sync_info = <<>> => lignes_factures = {}
       /\ sync_info' = <<>> => lignes_factures' = {}
       /\ sync_info' = sync_info => lignes_factures' = lignes_factures
       /\ (sync_info' # sync_info /\ sync_info' # <<>>) =>
            \E c \in Conn :
                /\ pc[c] = "commit" /\ pc'[c] = "idle"
                /\ sync_info' = Append(sync_info, Snapshot(files, arg[c].filepath, arg[c].df))
                /\ HashesOf(lignes_factures') = NewHashes(arg[c].df)]_vars

\* C26 witness: a second successful sync has removed a stored row and added a
\* new one, and the store holds the hashes of its rows.
C26_Witness ==
    /\ pc[1] = "idle" /\ ret[1].status = "success"
    /\ Len(sync_info) = 2
    /\ HashesOf(pre[1].lignes) \ NewHashes(arg[1].df) # {}
    /\ NewHashes(arg[1].df) \ HashesOf(pre[1].lignes) # {}
    /\ HashesOf(lignes_factures) = NewHashes(arg[1].df)

\* C27: whenever file_needs_sync answers "no" for a source, the stored rows
\* are those of the most recent successful sync of that source, also after a
\* sync of another source.  Stated on the state a successful sync of another
\* source q leaves: a source that was up to date before that sync, when the
\* store held its rows, and is still reported up to date, still finds its
\* rows in the store.
C27_UpToDateSourceCoherent ==
    \A p \in Keys :
        (/\ Returned(1) /\ ret[1].status = "success"
         /\ arg[1].filepath # p
         /\ ~FileNeedsSync(pre[1].info, files, p).needs
         /\ ~FileNeedsSync(sync_info, files, p).needs) =>
            lignes_factures = pre[1].lignes

-----------------------------------------------------------------------------
(* Claims across the views *)

\* C28: for every contract, the service-fait amounts of its rows in
\* get_vision_detaillee add up to its service_fait_cumule in
\* get_vision_globale, and the paid amounts to its paye_cumule, rows with a
\* missing tranche included.
C28_TrancheSumsMatchContract ==
    out.op = "vision_detaillee" =>
        \A g \in Range(GetVisionGlobale(df_marches, db)) :
            LET tranches == SelectSeq(out.rows, LAMBDA r : r.marche = g.marche)
            IN  /\ SumSeq(Column(tranches, "service_fait_tranche")) = g.service_fait_cumule
                /\ SumSeq(Column(tranches, "paye_tranche")) = g.paye_cumule

\* C29: a row adds its TTC amount to calculate_paye_tranche and to paye_cumule
\* if and only if get_historique_factures gives it the status 'Paye': the
\* history has as many 'Paye' rows as the paid totals select rows, also when a
\* mandate reference is made only of whitespace.
C29_PaidRowsArePayeRows ==
    out.op = "historique_factures" =>
        LET shown == {i \in 1..Len(df_marches) : out.marche \in {<<>>, df_marches[i].marche}}
        IN  Cardinality({j \in 1..Len(out.rows) : out.rows[j].statut = "Paye"})
                = Cardinality({i \in shown : MandatMask(df_marches[i])})

-----------------------------------------------------------------------------
(* Claims on a source key that is not a file *)

\* file_needs_sync answers "yes" for every key that names no file, and no
\* call with such a key has been skipped.
MissingSourceNeverSkipped ==
    /\ \A k \in Keys : ~files[k].exists => FileNeedsSync(sync_info, files, k).needs
    /\ \A c \in Conn : ret[c].status = "skipped" => files[arg[c].filepath].exists

\* Connection c ends a sync attempt whose key names no file.
EndsMissingSourceSync(c) ==
    /\ pc[c] \notin {"idle", "closed"}
    /\ pc'[c] = "idle"
    /\ ~files[arg[c].filepath].exists

\* C30 as stated: for a key that names no file (such as 'database_sync')
\* file_needs_sync answers "yes" whatever the snapshots, a non-forced
\* sync_from_excel with that key is never skipped, and every such call appends
\* one more snapshot.
C30_MissingSourceEveryCallAppends ==
    [][/\ MissingSourceNeverSkipped'
       /\ \A c \in Conn : EndsMissingSourceSync(c) => AppendsOne(c)]_vars

\* C30 amended: for a key that names no file file_needs_sync answers "yes"
\* whatever the snapshots and a non-forced sync_from_excel with that key is
\* never skipped; such a call appends one more snapshot when it ends with
\* status 'success' and leaves the snapshots as they are when it ends with
\* status 'error'.
C30_MissingSourceSuccessAppends ==
    [][/\ MissingSourceNeverSkipped'
       /\ \A c \in Conn :
            EndsMissingSourceSync(c) =>
                IF ret'[c].status = "success" THEN AppendsOne(c)
                ELSE ret'[c].status = "error" /\ sync_info' = sync_info]_vars

\* C30 witness: a non-forced sync with the key 'database_sync' has succeeded
\* and added a second snapshot of that key.
C30_Witness ==
    /\ Len(sync_info) = 2
    /\ sync_info[1].fichier_path = "database_sync"
    /\ sync_info[2].fichier_path = "database_sync"
    /\ ~files["database_sync"].exists
    /\ arg[1].filepath = "database_sync" /\ ~arg[1].force
    /\ lastCommit = 1
    /\ Returned(1) /\ ret[1].status = "success"

=============================================================================
